---------------------------- MODULE Spec2Model ----------------------------
(***************************************************************************)
(* State-vector quantum circuit simulator (rhaskia/quantum).               *)
(*                                                                         *)
(* The engine (quantum/src/qubit.rs, quantum/src/matrix.rs, complex.rs)   *)
(* and the circuit manager of the editor (editor/src/circuit.rs) are       *)
(* modelled as one state machine.  Indices of tracks, columns and          *)
(* amplitudes are 0-based as in the source; TLA+ sequences are 1-based, so *)
(* element i of a Vec is s[i + 1].                                         *)
(*                                                                         *)
(* Numbers.  The f64 pairs of ComplexNumber are modelled exactly, in the   *)
(* ring Z[i, 1/sqrt 2]: the tuple <<a, b, c, d, k>> is the number          *)
(*        ((a + b*sqrt2) + i*(c + d*sqrt2)) / 2^k ,  k >= 0,               *)
(* kept in lowest terms.  All catalog matrices have entries in this ring.  *)
(* The amplitude vector `values` of a QubitSystem is the pair [v, q] that  *)
(* stands for the vector  v[j] / sqrt(q)  (q a positive real of the ring), *)
(* so that the square root taken by renormalize stays exact.               *)
(***************************************************************************)
EXTENDS Integers, Sequences, FiniteSets, TLC

(***************************************************************************)
(* Bounds of the model                                                     *)
(***************************************************************************)
\* add_register is offered while registers < MaxRegisters
MaxRegisters == 2
\* add_column (and the auto-extension of handle_drop) is offered while
\* the grid has fewer than MaxColumns columns
MaxColumns == 2
\* a wire drop is offered while fewer than MaxWires wires are recorded
MaxWires == 1
\* the same two bounds for the specification of the editing operations
EditRegisters == 3
EditColumns == 2
\* and for the specification that runs the examples
ExampleRegisters == 4
ExampleColumns == 4
\* random draws of rand::random::<f64>() are the values u / DrawDen,
\* u \in 0 .. DrawDen - 1, of [0, 1)
DrawDen == 2
\* the wires recorded in the specification of the controlled gates
ControlWires == 2
\* the measurement specification starts from systems of 1 .. MeasQubits
\* qubits and makes up to MeasCalls calls
MeasQubits == 2
MeasCalls == 2
\* the specification of the engine calls starts from systems of
\* 1 .. EngineQubits basis qubits
EngineQubits == 4
\* the specification of the parameterised gates edits parameters
\* value * pi / 2 with value \in 0 .. MaxAngle, on up to AngleRegisters tracks
MaxAngle == 1
\* the specification of to_matrix draws the parameters theta * pi / 2 with
\* theta \in 0 .. CatalogAngle
CatalogAngle == 7
AngleRegisters == 2
\* the specification of the Kronecker products starts from systems of
\* 1 .. KronQubits qubits
KronQubits == 3
\* the specification of editing, removing and running offers add_register,
\* add_column and gate drops within these bounds
LastRegisters == 2
LastColumns == 2
LastGates == 2

(***************************************************************************)
(* ComplexNumber  (complex.rs)                                             *)
(***************************************************************************)
RECURSIVE Pow2(_)
Pow2(n) == IF n <= 0 THEN 1 ELSE 2 * Pow2(n - 1)

Even4(z) == z[1] % 2 = 0 /\ z[2] % 2 = 0 /\ z[3] % 2 = 0 /\ z[4] % 2 = 0

\* lowest terms of ((a + b sqrt2) + i (c + d sqrt2)) / 2^k
RECURSIVE Reduce(_)
Reduce(z) ==
    IF z[5] > 0 /\ Even4(z)
    THEN Reduce(<<z[1] \div 2, z[2] \div 2, z[3] \div 2, z[4] \div 2, z[5] - 1>>)
    ELSE z

\* c!(re) and c!(re, im) for integer re, im
c(re, im) == <<re, 0, im, 0, 0>>

Zero == c(0, 0)
One == c(1, 0)
\* ComplexNumber::SQRT_HALF = 1 / sqrt 2 = sqrt2 / 2
SQRT_HALF == <<0, 1, 0, 0, 1>>
Sqrt2 == <<0, 1, 0, 0, 0>>

\* z * 2^n (change of denominator, used to align two numbers)
Lift(z, n) == <<z[1] * Pow2(n), z[2] * Pow2(n), z[3] * Pow2(n), z[4] * Pow2(n), z[5] + n>>

\* x + y (the sums with 0 are spelled out to save the evaluation)
CAdd(x, y) ==
    IF x = Zero THEN y
    ELSE IF y = Zero THEN x
    ELSE LET k  == IF x[5] >= y[5] THEN x[5] ELSE y[5]
             xx == Lift(x, k - x[5])
             yy == Lift(y, k - y[5])
         IN  Reduce(<<xx[1] + yy[1], xx[2] + yy[2], xx[3] + yy[3], xx[4] + yy[4], k>>)

\* x * y (the products with 0 and 1 are spelled out to save the evaluation)
CMul(x, y) ==
    IF x = Zero \/ y = Zero THEN Zero
    ELSE IF x = One THEN y
    ELSE IF y = One THEN x
    ELSE Reduce(<< x[1]*y[1] + 2*x[2]*y[2] - x[3]*y[3] - 2*x[4]*y[4],
                   x[1]*y[2] + x[2]*y[1] - x[3]*y[4] - x[4]*y[3],
                   x[1]*y[3] + 2*x[2]*y[4] + x[3]*y[1] + 2*x[4]*y[2],
                   x[1]*y[4] + x[2]*y[3] + x[3]*y[2] + x[4]*y[1],
                   x[5] + y[5] >>)

CNeg(x) == <<0 - x[1], 0 - x[2], 0 - x[3], 0 - x[4], x[5]>>

CSub(x, y) == CAdd(x, CNeg(y))

conjugate(x) == <<x[1], x[2], 0 - x[3], 0 - x[4], x[5]>>

\* re^2 + im^2, a real number of the ring
abs_squared(x) ==
    Reduce(<< x[1]*x[1] + 2*x[2]*x[2] + x[3]*x[3] + 2*x[4]*x[4],
              2*x[1]*x[2] + 2*x[3]*x[4], 0, 0, 2 * x[5] >>)

\* sign of the real number a + b*sqrt2
SignAB(a, b) ==
    IF a = 0 /\ b = 0 THEN 0
    ELSE IF a >= 0 /\ b >= 0 THEN 1
    ELSE IF a <= 0 /\ b <= 0 THEN 0 - 1
    ELSE IF a > 0 THEN (IF a * a > 2 * b * b THEN 1 ELSE 0 - 1)
    ELSE (IF 2 * b * b > a * a THEN 1 ELSE 0 - 1)

\* sign of the real part of x
Sign(x) == SignAB(x[1], x[2])

\* x < y for real x, y
RLess(x, y) == Sign(CSub(y, x)) = 1

IsReal(x) == x[3] = 0 /\ x[4] = 0

\* the integer n as a number
Int2C(n) == c(n, 0)

\* a Vec given by its elements: the sequence f, with its elements computed
\* once
Vec(f) == f \o <<>>


(***************************************************************************)
(* Matrix  (quantum/src/matrix.rs): a sequence of rows                     *)
(***************************************************************************)
\* matrix_new!([c!(1.0)])
Unit1 == << <<One>> >>

\* Matrix::len: the number of rows
MLen(m) == Len(m)

scale(m, rhs) == Vec([i \in 1..Len(m) |-> Vec([j \in 1..Len(m[i]) |-> CMul(m[i][j], rhs)])])

\* a product that takes its factors in the other order
kronecker_Swapped(a, b) ==
    LET a_rows == Len(a)
        a_cols == Len(a[1])
        b_rows == Len(b)
        b_cols == Len(b[1])
    IN  Vec([r \in 1..(a_rows * b_rows) |->
            Vec([s \in 1..(a_cols * b_cols) |->
                CMul(b[((r - 1) \div a_rows) + 1][((s - 1) \div a_cols) + 1],
                     a[((r - 1) % a_rows) + 1][((s - 1) % a_cols) + 1])])])

\* result[i * b_rows + k][j * b_cols + l] = self[i][j] * other[k][l]
kronecker(a, b) ==
    LET a_rows == Len(a)
        a_cols == Len(a[1])
        b_rows == Len(b)
        b_cols == Len(b[1])
    IN  Vec([r \in 1..(a_rows * b_rows) |->
            Vec([s \in 1..(a_cols * b_cols) |->
                CMul(a[((r - 1) \div b_rows) + 1][((s - 1) \div b_cols) + 1],
                     b[((r - 1) % b_rows) + 1][((s - 1) % b_cols) + 1])])])

\* sum over j of row[j] * vector[j]
RECURSIVE RowDot(_, _, _)
RowDot(row, vector, j) ==
    IF j = 0 THEN Zero
    ELSE CAdd(RowDot(row, vector, j - 1), CMul(row[j], vector[j]))

\* Matrix::dot without its assertion (the callers below state it)
dot(m, vector) == Vec([i \in 1..Len(m) |-> RowDot(m[i], vector, Len(m[i]))])

identity2 == << <<One, Zero>>, <<Zero, One>> >>

pauli_x == << <<Zero, One>>, <<One, Zero>> >>

pauli_y == << <<Zero, c(0, 0 - 1)>>, <<c(0, 1), Zero>> >>

pauli_z == << <<One, Zero>>, <<Zero, c(0 - 1, 0)>> >>

hadamard == scale(<< <<One, One>>, <<One, c(0 - 1, 0)>> >>, SQRT_HALF)

s_gate == << <<One, Zero>>, <<Zero, c(0, 1)>> >>

\* Angles.  A gate parameter theta (f64, radians) is modelled by the
\* integer t with theta = t * pi / 2, so that theta / 2 = t * pi / 4.
\* CosQ(n) = cos(n * pi / 4), SinQ(n) = sin(n * pi / 4)
CosQ(n) ==
    LET m == n % 8
    IN  CASE m = 0 -> One
          [] m = 1 -> SQRT_HALF
          [] m = 2 -> Zero
          [] m = 3 -> CNeg(SQRT_HALF)
          [] m = 4 -> c(0 - 1, 0)
          [] m = 5 -> CNeg(SQRT_HALF)
          [] m = 6 -> Zero
          [] OTHER -> SQRT_HALF

SinQ(n) == CosQ(n + 6)

\* i * x for real x
TimesI(x) == CMul(c(0, 1), x)

\* c!(0.0, theta).exp() = cos(theta) + i sin(theta)
phase(theta) ==
    << <<One, Zero>>, <<Zero, CAdd(CosQ(2 * theta), TimesI(SinQ(2 * theta)))>> >>

rx(theta) ==
    LET sin == CNeg(SinQ(theta))
        cos == CosQ(theta)
    IN  << <<cos, TimesI(sin)>>, <<TimesI(sin), cos>> >>

ry(theta) ==
    LET sin == SinQ(theta)
        cos == CosQ(theta)
    IN  << <<cos, TimesI(CNeg(sin))>>, <<TimesI(sin), cos>> >>

rz(theta) ==
    LET sin == SinQ(theta)
        cos == CosQ(theta)
    IN  << <<CAdd(cos, TimesI(sin)), Zero>>, <<Zero, CAdd(cos, TimesI(CNeg(sin)))>> >>

\* the permutation matrix with a one at [i][perm[i]] (0-based rows perm)
PermMatrix(perm) ==
    Vec([i \in 1..Len(perm) |->
            Vec([j \in 1..Len(perm) |-> IF perm[i] = j - 1 THEN One ELSE Zero])])

swap == PermMatrix(<<0, 2, 1, 3>>)

cnot == PermMatrix(<<0, 1, 3, 2>>)

cz ==
    Vec([i \in 1..4 |-> Vec([j \in 1..4 |->
        IF i # j THEN Zero ELSE IF i = 4 THEN c(0 - 1, 0) ELSE One])])

ccx == PermMatrix(<<0, 1, 2, 3, 4, 5, 7, 6>>)

cswap == PermMatrix(<<0, 1, 2, 3, 4, 6, 5, 7>>)

cccx == PermMatrix(<<0, 1, 2, 3, 4, 5, 6, 7, 8, 9, 10, 11, 12, 13, 15, 14>>)

(***************************************************************************)
(* Gate  (quantum/src/qubit.rs)                                            *)
(* A gate is the record [tag, theta]; theta is 0 for gates without a       *)
(* parameter.  Gate::Other("none") is the Placeholder of the grid.         *)
(***************************************************************************)
G(tag) == [tag |-> tag, theta |-> 0]

GP(tag, theta) == [tag |-> tag, theta |-> theta]

Placeholder == G("none")

IsOther(gate) == gate.tag = "none"

to_matrix(gate) ==
    CASE gate.tag = "I" -> identity2
      [] gate.tag = "X" -> pauli_x
      [] gate.tag = "Y" -> pauli_y
      [] gate.tag = "Z" -> pauli_z
      [] gate.tag = "H" -> hadamard
      [] gate.tag = "M" -> identity2
      [] gate.tag = "S" -> s_gate
      [] gate.tag = "P" -> phase(gate.theta)
      [] gate.tag = "RX" -> rx(gate.theta)
      [] gate.tag = "RY" -> ry(gate.theta)
      [] gate.tag = "RZ" -> rz(gate.theta)
      [] gate.tag = "CNOT" -> cnot
      [] gate.tag = "CZ" -> cz
      [] gate.tag = "SWAP" -> swap
      [] gate.tag = "CCX" -> ccx
      [] gate.tag = "CCCX" -> cccx
      [] gate.tag = "CSWAP" -> cswap
      [] OTHER -> Unit1

\* editor/src/circuit.rs: the cheap log2 of a matrix side (panics on any
\* other value; no catalog matrix has one)
log2(n) ==
    CASE n = 1 -> 0
      [] n = 2 -> 1
      [] n = 4 -> 2
      [] n = 8 -> 3
      [] n = 16 -> 4
      [] n = 32 -> 5


(***************************************************************************)
(* Qubit and QubitSystem  (quantum/src/qubit.rs)                           *)
(* An amplitude vector is the record [v, q] standing for v[j] / sqrt(q).   *)
(* q = 0 marks the vector of NaNs that a division by a zero magnitude      *)
(* produces.                                                               *)
(***************************************************************************)
\* Qubit::zero().as_vec() and Qubit::one().as_vec()
qubit_zero == [v |-> <<One, Zero>>, q |-> One]

qubit_one == [v |-> <<Zero, One>>, q |-> One]

\* a product that puts the second tensor in front
tensor_product_Swapped(tensor1, tensor2) ==
    LET n1 == Len(tensor1.v)
    IN  [v |-> Vec([j \in 1..(Len(tensor2.v) * n1) |->
                   CMul(tensor2.v[((j - 1) \div n1) + 1], tensor1.v[((j - 1) % n1) + 1])]),
         q |-> CMul(tensor1.q, tensor2.q)]

\* result.push(x * y) for x in tensor1, y in tensor2
tensor_product(tensor1, tensor2) ==
    LET n2 == Len(tensor2.v)
    IN  [v |-> Vec([j \in 1..(Len(tensor1.v) * n2) |->
                   CMul(tensor1.v[((j - 1) \div n2) + 1], tensor2.v[((j - 1) % n2) + 1])]),
         q |-> CMul(tensor1.q, tensor2.q)]

\* a reduce that multiplies each qubit in front of the accumulator
RECURSIVE ReduceTensor_Reversed(_, _)
ReduceTensor_Reversed(qubits, n) ==
    IF n = 1 THEN qubits[1]
    ELSE tensor_product(qubits[n], ReduceTensor_Reversed(qubits, n - 1))

\* qubits.map(as_vec).reduce(tensor_product), for a non-empty list
RECURSIVE ReduceTensor(_, _)
ReduceTensor(qubits, n) ==
    IF n = 1 THEN qubits[1]
    ELSE tensor_product(ReduceTensor(qubits, n - 1), qubits[n])

\* QubitSystem::new
NewSystem(qubits) == [values |-> ReduceTensor(qubits, Len(qubits)), len |-> Len(qubits)]

\* vec![Qubit::zero(); n]
Zeros(n) == Vec([j \in 1..n |-> qubit_zero])

\* add_qubit that forgets the qubit count
add_qubit_NoLen(sys, qubit) ==
    [values |-> tensor_product(sys.values, qubit), len |-> sys.len]

add_qubit(sys, qubit) ==
    [values |-> tensor_product(sys.values, qubit), len |-> sys.len + 1]

\* sum of abs_squared over the entries j (0-based) of v that satisfy keep
RECURSIVE SumSqIf(_, _, _)
SumSqIf(v, keep(_), n) ==
    IF n = 0 THEN Zero
    ELSE CAdd(SumSqIf(v, keep, n - 1),
              IF keep(n - 1) THEN abs_squared(v[n]) ELSE Zero)

KeepAll(j) == TRUE

\* q * (sum of |amplitude|^2)
SumSq(v) == SumSqIf(v, KeepAll, Len(v))

\* one representation per vector where the ring allows it: q = 1 / 2^k is
\* moved into the entries
RECURSIVE Canon(_)
Canon(values) ==
    IF values.q[1] = 1 /\ values.q[2] = 0 /\ values.q[5] > 0
    THEN Canon([v |-> Vec([j \in 1..Len(values.v) |-> CMul(values.v[j], Sqrt2)]),
                q |-> CMul(values.q, c(2, 0))])
    ELSE values

\* every amplitude divided by the real number sqrt(m2 / q), where m2 / q is
\* the sum of the squared moduli: (v / sqrt q) / sqrt(m2 / q) = v / sqrt(m2);
\* a zero magnitude gives NaN in every entry
DivByMagnitude(values, m2) ==
    IF m2 = Zero \/ values.q = Zero
    THEN [v |-> Vec([j \in 1..Len(values.v) |-> Zero]), q |-> Zero]
    ELSE Canon([v |-> values.v, q |-> m2])

\* renormalize that leaves the amplitudes as they are
renormalize_Skip(values) == values

renormalize(values) == DivByMagnitude(values, SumSq(values.v))

\* apply_gate, lines 154-160: the loop that builds full_gate, entered with
\* the composite so far and gate_size; len is values.len()
RECURSIVE ApplyGateLoop(_, _, _, _, _)
ApplyGateLoop(full_gate, gate_size, target, matrix, len) ==
    IF gate_size < len
    THEN LET partial_gate == IF gate_size \div 2 = target THEN matrix ELSE identity2
         IN  ApplyGateLoop(kronecker(full_gate, partial_gate),
                           gate_size * MLen(partial_gate), target, matrix, len)
    ELSE full_gate

\* apply_gate(target, matrix): ok is the assert_eq! of Matrix::dot
apply_gate(sys, target, matrix) ==
    LET full_gate == ApplyGateLoop(Unit1, 1, target, matrix, Len(sys.values.v))
        ok        == MLen(full_gate) = Len(sys.values.v)
    IN  [ok  |-> ok,
         sys |-> IF ok THEN [sys EXCEPT !.values.v = dot(full_gate, sys.values.v)] ELSE sys]

\* measure, lines 190-199: the first idx, from idx on, with
\* rand_state <= weight, where weight is the sum of the probabilities of the
\* entries 0..idx; 0 when the loop ends without a break
RECURSIVE PickState(_, _, _)
PickState(values, u, idx) ==
    IF idx >= Len(values.v) THEN 0
    ELSE IF ~RLess(CMul(Int2C(DrawDen), SumSqIf(values.v, KeepAll, idx + 1)),
                   CMul(Int2C(u), values.q))
         THEN idx
         ELSE PickState(values, u, idx + 1)

\* measure, lines 204-207: (state >> i) & 1 for i in (0..len).rev()
StateBits(state, len) == Vec([j \in 1..len |-> (state \div Pow2(len - j)) % 2])

\* the qubits |0> and |1> named by a list of bits
BasisQubits(bits) ==
    Vec([j \in 1..Len(bits) |-> IF bits[j] = 1 THEN qubit_one ELSE qubit_zero])

\* measure() with the random draw rand_state = u / DrawDen: ok is the
\* assertion sum - 1 < 0.05 on the probabilities, result the returned bits
measure(sys, u) ==
    LET sum    == SumSq(sys.values.v)
        ok     == RLess(CMul(Int2C(20), CSub(sum, sys.values.q)), sys.values.q)
        result == StateBits(PickState(sys.values, u, 0), sys.len)
    IN  [ok     |-> ok,
         sys    |-> IF ok
                    THEN [sys EXCEPT !.values =
                             ReduceTensor(BasisQubits(result), Len(result))]
                    ELSE sys,
         result |-> result]

\* measure_single that returns the bit and leaves the amplitudes as they are
measure_single_NoCollapse(sys, target, u) ==
    LET modulo       == Pow2(sys.len - target)
        constraint   == modulo \div 2
        One_(idx)    == idx % modulo >= constraint
        p1q          == SumSqIf(sys.values.v, One_, Len(sys.values.v))
        state        == RLess(CMul(Int2C(u), sys.values.q), CMul(Int2C(DrawDen), p1q))
    IN  [sys |-> sys, result |-> IF state THEN 1 ELSE 0]

\* measure_single with the random draw rand_state = u / DrawDen; the result
\* is the collapsed system and the returned bit
measure_single(sys, target, u) ==
    LET modulo       == Pow2(sys.len - target)
        constraint   == modulo \div 2
        One_(idx)    == idx % modulo >= constraint
        \* probability_one * q
        p1q          == SumSqIf(sys.values.v, One_, Len(sys.values.v))
        \* rand_state < probability_one
        state        == RLess(CMul(Int2C(u), sys.values.q), CMul(Int2C(DrawDen), p1q))
        measured     == [v |-> Vec([j \in 1..Len(sys.values.v) |->
                                   IF One_(j - 1) = state THEN sys.values.v[j] ELSE Zero]),
                         q |-> sys.values.q]
    IN  [sys |-> [values |-> renormalize(measured), len |-> sys.len],
         result |-> IF state THEN 1 ELSE 0]

\* measure_single(target) for each random draw: the set of [sys, result]
Measured(sys, target) == { measure_single(sys, target, u) : u \in 0..(DrawDen - 1) }

\* apply_gates: the outcomes of the loop over the first n entries of the
\* column, one for each way the random draws of the M entries can fall.  An
\* outcome is [sys, full_gate, meas]: the system (collapsed by the M entries
\* met so far), the composite and the measurements made, as <<track, outcome>>
RECURSIVE ApplyLoop(_, _, _)
ApplyLoop(gates, n, acc0) ==
    IF n = 0 THEN {acc0}
    ELSE LET gate == gates[n]
             Compose(acc) ==
                 IF IsOther(gate) THEN acc
                 ELSE [acc EXCEPT !.full_gate = kronecker(acc.full_gate, to_matrix(gate))]
         IN  UNION { IF gate.tag = "M"
                     THEN { Compose([acc EXCEPT !.sys = m.sys,
                                                !.meas = Append(acc.meas, <<n - 1, m.result>>)]) :
                            m \in Measured(acc.sys, n - 1) }
                     ELSE { Compose(acc) } :
                     acc \in ApplyLoop(gates, n - 1, acc0) }

\* the end of apply_gates: ok is the assert_eq! on the side of the composite;
\* when it fails the panic leaves the collapsed system
Applied(acc) ==
    LET ok == Len(acc.sys.values.v) = MLen(acc.full_gate)
    IN  [ok   |-> ok,
         sys  |-> IF ok
                  THEN [acc.sys EXCEPT !.values.v = dot(acc.full_gate, acc.sys.values.v)]
                  ELSE acc.sys,
         meas |-> acc.meas]

\* apply_gates(gates): the set of its outcomes [ok, sys, meas]
apply_gates(sys, gates) ==
    { Applied(acc) :
      acc \in ApplyLoop(gates, Len(gates), [sys |-> sys, full_gate |-> Unit1, meas |-> <<>>]) }


\* density_matrix: rho[i][j] = conjugate(values[i]) * values[j]; the record
\* [m, q] stands for the matrix m / q
density_matrix(sys) ==
    [m |-> Vec([i \in 1..Len(sys.values.v) |-> Vec([j \in 1..Len(sys.values.v) |->
               CMul(conjugate(sys.values.v[i]), sys.values.v[j])])]),
     q |-> sys.values.q]

\* the index i of the source with reduced index r and bit b at qubit_idx:
\* r = (i & ((1 << qubit_idx) - 1)) | ((i >> (qubit_idx + 1)) << qubit_idx)
Expand(r, b, qubit_idx) ==
    (r % Pow2(qubit_idx)) + b * Pow2(qubit_idx)
        + (r \div Pow2(qubit_idx)) * Pow2(qubit_idx + 1)

\* partial_trace: entry [reduced_i][reduced_j] accumulates density[i][j]
\* over the pairs (i, j) whose bit qubit_idx agrees, i.e. the two pairs with
\* bit 0 and with bit 1
partial_trace(density, qubit_idx, num_qubits) ==
    LET reduced_size == Pow2(num_qubits) \div 2
    IN  [m |-> Vec([ri \in 1..reduced_size |-> Vec([rj \in 1..reduced_size |->
                   CAdd(density.m[Expand(ri - 1, 0, qubit_idx) + 1][Expand(rj - 1, 0, qubit_idx) + 1],
                        density.m[Expand(ri - 1, 1, qubit_idx) + 1][Expand(rj - 1, 1, qubit_idx) + 1])])]),
         q |-> density.q]

RePart(x) == <<x[1], x[2], 0, 0, x[5]>>

ImPart(x) == <<x[3], x[4], 0, 0, x[5]>>

\* bloch_vector: [r_x, r_y, r_z] = [2 re(c), 2 im(c), rho_00 - rho_11], each
\* over q
bloch_vector(density) ==
    [r |-> << CMul(c(2, 0), RePart(density.m[1][2])),
              CMul(c(2, 0), ImPart(density.m[1][2])),
              CSub(RePart(density.m[1][1]), RePart(density.m[2][2])) >>,
     q |-> density.q]

\* the inner loop of step for one qubit_idx: for i in 0..registers, i # qubit_idx,
\* trace out index i - removed of the size qubits left
RECURSIVE TraceLoop(_, _, _, _)
TraceLoop(density, qubit_idx, registers_, n) ==
    IF n = 0 THEN [density |-> density, removed |-> 0, size |-> registers_]
    ELSE LET st == TraceLoop(density, qubit_idx, registers_, n - 1)
             i  == n - 1
         IN  IF i # qubit_idx
             THEN [density |-> partial_trace(st.density, i - st.removed, st.size),
                   removed |-> st.removed + 1,
                   size    |-> st.size - 1]
             ELSE st

\* the list bloch_vectors that step hands to send_bloch_vectors
BlochVectors(sys, registers_) ==
    Vec([k \in 1..registers_ |->
        bloch_vector(TraceLoop(density_matrix(sys), k - 1, registers_, registers_).density)])

\* send_bloch_vectors: each vector sent as [v[0] * 8, v[2] * 8, v[1] * 8]
send_bloch_vectors(bloch_vectors) ==
    Vec([k \in 1..Len(bloch_vectors) |->
        [r |-> << CMul(bloch_vectors[k].r[1], c(8, 0)),
                  CMul(bloch_vectors[k].r[3], c(8, 0)),
                  CMul(bloch_vectors[k].r[2], c(8, 0)) >>,
         q |-> bloch_vectors[k].q]])

\* vec![vec![0.0, 0.0, 1.0]]
BlochUp == << [r |-> <<Zero, Zero, One>>, q |-> One] >>


(***************************************************************************)
(* CircuitManager  (editor/src/circuit.rs)                                 *)
(***************************************************************************)
VARIABLES
    system,         \* QubitSystem: [values, len]
    gates,          \* Vec<Vec<Gate>>: gates[column + 1][track + 1]
    current_drag,   \* Gate
    dragging_wire,  \* (bool, usize, usize): <<active, column, source>>
    wires,          \* Vec<(usize, usize, usize)>: <<column, source, target>>
    registers,      \* usize
    step,           \* usize
    panicked,       \* a panic (failed assertion) has ended the last call
    report          \* the last call and what it did (see Report)

vars == <<system, gates, current_drag, dragging_wire, wires, registers, step,
          panicked, report>>

\* the report of a call of op: for handle_drop its outcome ("wire": a wire
\* was recorded, "nowire": a wire drag was active and nothing was recorded,
\* "rejected": the alert of lines 106-109 was raised, "placed") and, unless
\* it is "nowire", its arguments and the column as it was before; the
\* message given to send_bloch_vectors (<<>>: none); for step the working
\* column handed to apply_gates, the measurements made for the wires,
\* <<source, target, outcome>>, and those made for the M entries,
\* <<track, outcome>>; for measure_single the calls made so far
Report(op) ==
    [op |-> op, column |-> 0, register |-> 0, outcome |-> "", before |-> <<>>,
     sent |-> <<>>, working |-> <<>>, wmeas |-> <<>>, gmeas |-> <<>>]

\* the report of a handle_drop that found a wire drag and recorded nothing
NoDropReport(outcome) == [Report("handle_drop") EXCEPT !.outcome = outcome]

\* the report of any other handle_drop(column, register)
DropReport(column, register, outcome, before) ==
    [Report("handle_drop") EXCEPT !.column = column, !.register = register,
                                  !.outcome = outcome, !.before = before]

\* the gates offered for dragging by CircuitParts (a part of its list)
DragGates == {G("H"), G("M"), G("CNOT")}

\* the gates dragged in the specification of editing and running
RunGates == {G("CNOT"), G("M")}

\* the gates dragged in the specification of the editing operations
EditGates == {G("H"), G("CNOT"), G("CCX")}

\* the "Entanglement" example of CircuitParts
Entanglement ==
    [gates |-> << <<G("H"), G("I")>>, <<G("CNOT"), Placeholder>>, <<G("I"), G("I")>> >>,
     wires |-> <<>>]

\* the "Quantum Teleportation" example
Teleportation ==
    [gates |-> << <<G("X"), G("H"), G("I")>>,
                  <<G("I"), G("CNOT"), Placeholder>>,
                  <<G("CNOT"), Placeholder, G("I")>>,
                  <<G("H"), G("I"), G("I")>>,
                  <<G("I"), G("M"), G("X")>>,
                  <<G("M"), G("I"), G("Z")>>,
                  <<G("I"), G("I"), G("I")>> >>,
     wires |-> << <<4, 1, 2>>, <<5, 0, 2>> >>]

\* the examples of CircuitParts whose angles the model's numbers express
\* ("Partial Entanglement" uses RY(0.39269))
Examples == {Entanglement, Teleportation}

\* vec![Gate::I; n]
IColumn(n) == Vec([j \in 1..n |-> G("I")])

\* CircuitManager::new
Init ==
    /\ system = NewSystem(<<qubit_zero>>)
    /\ gates = << <<G("I")>> >>
    /\ current_drag = G("I")
    /\ dragging_wire = <<FALSE, 0, 0>>
    /\ wires = <<>>
    /\ registers = 1
    /\ step = 0
    /\ panicked = FALSE
    /\ report = Report("new")

\* add_register, offered while registers < maxRegisters
add_register(maxRegisters) ==
    /\ ~panicked
    /\ registers < maxRegisters
    /\ registers' = registers + 1
    /\ gates' = Vec([i \in 1..Len(gates) |-> Append(gates[i], G("I"))])
    /\ system' = add_qubit(system, qubit_zero)
    /\ report' = Report("add_register")
    /\ UNCHANGED <<current_drag, dragging_wire, wires, step, panicked>>

\* the grid after add_column
AddColumn(gs, registers_) == Append(gs, IColumn(registers_))

\* add_column, offered while the grid has fewer than maxColumns columns
add_column(maxColumns) ==
    /\ ~panicked
    /\ Len(gates) < maxColumns
    /\ gates' = AddColumn(gates, registers)
    /\ report' = Report("add_column")
    /\ UNCHANGED <<system, current_drag, dragging_wire, wires, registers, step, panicked>>

set_dragging(gate) ==
    /\ ~panicked
    /\ current_drag' = gate
    /\ report' = Report("set_dragging")
    /\ UNCHANGED <<system, gates, dragging_wire, wires, registers, step, panicked>>

\* the WireCreator of (column, register) exists while that entry is M
set_wire_drag(dragging, column, register) ==
    /\ ~panicked
    /\ column < Len(gates) /\ register < registers
    /\ gates[column + 1][register + 1] = G("M")
    /\ dragging_wire' = <<dragging, column, register>>
    /\ report' = Report("set_wire_drag")
    /\ UNCHANGED <<system, gates, current_drag, wires, registers, step, panicked>>

set_example(example) ==
    /\ ~panicked
    /\ registers' = Len(example.gates[1])
    /\ system' = NewSystem(Zeros(Len(example.gates[1])))
    /\ step' = 0
    /\ gates' = example.gates
    /\ wires' = example.wires
    /\ report' = Report("set_example")
    /\ UNCHANGED <<current_drag, dragging_wire, panicked>>

\* edit_gate, lines 64-70: the entry with its parameter replaced by value
Edited(gate, value) ==
    IF gate.tag \in {"P", "RX", "RY", "RZ"} THEN GP(gate.tag, value) ELSE gate

edit_gate(column, register, value) ==
    /\ ~panicked
    /\ column < Len(gates) /\ register < registers
    /\ gates' = [gates EXCEPT ![column + 1][register + 1] = Edited(@, value)]
    /\ report' = Report("edit_gate")
    /\ UNCHANGED <<system, current_drag, dragging_wire, wires, registers, step, panicked>>

\* handle_drop, lines 113-119: the Placeholders that follow register become
\* I again, up to the first entry that is not a Placeholder
RECURSIVE Restore(_, _)
Restore(column_, i) ==
    IF i >= Len(column_) THEN column_
    ELSE IF IsOther(column_[i + 1])
         THEN Restore([column_ EXCEPT ![i + 1] = G("I")], i + 1)
         ELSE column_

\* handle_drop, lines 121-128: the gate at register, Placeholders on the
\* next log2(mat_len) - 1 entries
Place(column_, register, gate) ==
    LET mat_len == MLen(to_matrix(gate))
    IN  Vec([j \in 1..Len(column_) |->
            IF j - 1 = register THEN gate
            ELSE IF mat_len > 2 /\ j - 1 > register /\ j - 1 < register + log2(mat_len)
                 THEN Placeholder
                 ELSE column_[j]])

\* a placement without the loop of lines 113-119
DropColumn_NoRestore(column_, register, gate) == Place(column_, register, gate)

\* the column after a placement that passed the size check
DropColumn(column_, register, gate) == Place(Restore(column_, register + 1), register, gate)

\* a size check that counts one track too many
Oversized_Loose(gate, registers_, register) ==
    log2(MLen(to_matrix(gate))) > registers_ - register + 1

\* the size check of handle_drop, lines 104-105
Oversized(gate, registers_, register) ==
    log2(MLen(to_matrix(gate))) > registers_ - register

\* a wire branch that does not compare the tracks
WireToPush_AnyTrack(dw, column, register) ==
    IF dw[2] = column
    THEN << <<column, dw[3], register>> >>
    ELSE <<>>

\* the wire branch of handle_drop, lines 97-102: the wires to push
WireToPush(dw, column, register) ==
    IF dw[2] = column /\ register # dw[3]
    THEN << <<column, dw[3], register>> >>
    ELSE <<>>

\* a placement that never appends a column
DropGrid_NoExtend(gs, registers_, column, register, gate) ==
    [gs EXCEPT ![column + 1] = DropColumn(gs[column + 1], register, gate)]

\* the grid after a placement at (column, register), lines 113-132
DropGrid(gs, registers_, column, register, gate) ==
    LET placed == [gs EXCEPT ![column + 1] = DropColumn(gs[column + 1], register, gate)]
    IN  IF column = Len(gs) - 1 THEN AddColumn(placed, registers_) ELSE placed

\* a handle_drop that takes the wire branch on the column of the drag only
handle_drop_DragColumn(column, register, maxColumns, maxWires) ==
    /\ ~panicked
    /\ column < Len(gates) /\ register < registers
    /\ IF dragging_wire[1] /\ dragging_wire[2] = column
       THEN /\ Len(wires) + Len(WireToPush(dragging_wire, column, register)) <= maxWires
            /\ wires' = wires \o WireToPush(dragging_wire, column, register)
            /\ report' = IF WireToPush(dragging_wire, column, register) = <<>>
                         THEN NoDropReport("nowire")
                         ELSE DropReport(column, register, "wire", gates[column + 1])
            /\ UNCHANGED gates
       ELSE IF Oversized(current_drag, registers, register)
       THEN /\ report' = DropReport(column, register, "rejected", gates[column + 1])
            /\ UNCHANGED <<gates, wires>>
       ELSE /\ column = Len(gates) - 1 => Len(gates) < maxColumns
            /\ gates' = DropGrid(gates, registers, column, register, current_drag)
            /\ report' = DropReport(column, register, "placed", gates[column + 1])
            /\ UNCHANGED wires
    /\ UNCHANGED <<system, current_drag, dragging_wire, registers, step, panicked>>

\* handle_drop; a drop that would bring the grid beyond maxColumns columns or
\* the wires beyond maxWires is not offered
handle_drop(column, register, maxColumns, maxWires) ==
    /\ ~panicked
    /\ column < Len(gates) /\ register < registers
    /\ IF dragging_wire[1]
       THEN /\ Len(wires) + Len(WireToPush(dragging_wire, column, register)) <= maxWires
            /\ wires' = wires \o WireToPush(dragging_wire, column, register)
            /\ report' = IF WireToPush(dragging_wire, column, register) = <<>>
                         THEN NoDropReport("nowire")
                         ELSE DropReport(column, register, "wire", gates[column + 1])
            /\ UNCHANGED gates
       ELSE IF Oversized(current_drag, registers, register)
       THEN /\ report' = DropReport(column, register, "rejected", gates[column + 1])
            /\ UNCHANGED <<gates, wires>>
       ELSE /\ column = Len(gates) - 1 => Len(gates) < maxColumns
            /\ gates' = DropGrid(gates, registers, column, register, current_drag)
            /\ report' = DropReport(column, register, "placed", gates[column + 1])
            /\ UNCHANGED wires
    /\ UNCHANGED <<system, current_drag, dragging_wire, registers, step, panicked>>

\* GateObject onmousedown with the auxiliary button; the GateObject of
\* (column, register) exists while that entry is no Placeholder (gates_range)
remove_gate(column, register) ==
    /\ ~panicked
    /\ column < Len(gates) /\ register < registers
    /\ ~IsOther(gates[column + 1][register + 1])
    /\ gates' = [gates EXCEPT ![column + 1][register + 1] = G("I")]
    /\ report' = [Report("remove_gate") EXCEPT !.column = column, !.register = register,
                                               !.before = gates[column + 1]]
    /\ UNCHANGED <<system, current_drag, dragging_wire, wires, registers, step, panicked>>

\* clear_system that leaves the step counter
clear_system_KeepStep ==
    /\ ~panicked
    /\ system' = NewSystem(Zeros(2))
    /\ registers' = 2
    /\ gates' = << IColumn(2) >>
    /\ wires' = <<>>
    /\ report' = [Report("clear_system") EXCEPT !.sent = send_bloch_vectors(BlochUp)]
    /\ UNCHANGED <<step, current_drag, dragging_wire, panicked>>

clear_system ==
    /\ ~panicked
    /\ step' = 0
    /\ system' = NewSystem(Zeros(2))
    /\ registers' = 2
    /\ gates' = << IColumn(2) >>
    /\ wires' = <<>>
    /\ report' = [Report("clear_system") EXCEPT !.sent = send_bloch_vectors(BlochUp)]
    /\ UNCHANGED <<current_drag, dragging_wire, panicked>>

\* restart that leaves the step counter
restart_KeepStep ==
    /\ ~panicked
    /\ system' = NewSystem(Zeros(registers))
    /\ report' = [Report("restart") EXCEPT !.sent = send_bloch_vectors(BlochUp)]
    /\ UNCHANGED <<gates, current_drag, dragging_wire, wires, registers, step, panicked>>

restart ==
    /\ ~panicked
    /\ system' = NewSystem(Zeros(registers))
    /\ step' = 0
    /\ report' = [Report("restart") EXCEPT !.sent = send_bloch_vectors(BlochUp)]
    /\ UNCHANGED <<gates, current_drag, dragging_wire, wires, registers, panicked>>

\* step, lines 172-177: the wires of the column being executed
ColumnWires(ws, column) == SelectSeq(ws, LAMBDA wire : wire[1] = column)

\* a wire that never turns its target into I
Controlled_Keep(gate, result) == gate

\* step, lines 186-190: the entry of a wire's target after the measurement
\* of its source
Controlled(gate, result) == IF result = 1 THEN gate ELSE G("I")

\* step, lines 179-193: for i in 0..gates.len(), for wire in &wires: the p-th
\* pass of the inner loop body is track (p - 1) \div |wires|, wire
\* ((p - 1) % |wires|) + 1.  The outcomes after p passes, one for each way
\* the random draws can fall: [sys, gates, wmeas], the system, the working
\* column and the measurements made, as <<source, target, outcome>>
RECURSIVE WireLoop(_, _, _)
WireLoop(ws, p, acc0) ==
    IF p = 0 THEN {acc0}
    ELSE LET i    == (p - 1) \div Len(ws)
             wire == ws[((p - 1) % Len(ws)) + 1]
         IN  IF wire[3] = i
             THEN UNION { { [sys   |-> m.sys,
                             gates |-> [acc.gates EXCEPT ![i + 1] =
                                           Controlled(acc.gates[i + 1], m.result)],
                             wmeas |-> Append(acc.wmeas, <<wire[2], wire[3], m.result>>)] :
                            m \in Measured(acc.sys, wire[2]) } :
                          acc \in WireLoop(ws, p - 1, acc0) }
             ELSE WireLoop(ws, p - 1, acc0)

\* the loop of step over the column column_ with the wires ws of that column
StepWires(sys, column_, ws) ==
    WireLoop(ws, Len(column_) * Len(ws), [sys |-> sys, gates |-> column_, wmeas |-> <<>>])

\* step, line 167: nothing is left to execute
AtEnd(step_, gs) == step_ = Len(gs)

\* an early return taken after the increment of line 170
StepNoOp_Counts ==
    /\ report' = Report("step")
    /\ step' = step + 1
    /\ UNCHANGED <<system, gates, current_drag, dragging_wire, wires, registers, panicked>>

\* step, lines 167-169: the early return
StepNoOp ==
    /\ report' = Report("step")
    /\ UNCHANGED <<system, gates, current_drag, dragging_wire, wires, registers, step,
                   panicked>>

\* a step that writes the working column back into the grid
Step_InPlace ==
    /\ ~panicked
    /\ IF AtEnd(step, gates)
       THEN StepNoOp
       ELSE \E wired \in StepWires(system, gates[step + 1], ColumnWires(wires, step)) :
            \E applied \in apply_gates(wired.sys, wired.gates) :
                /\ step' = step + 1
                /\ system' = applied.sys
                /\ panicked' = ~applied.ok
                /\ gates' = [gates EXCEPT ![step + 1] = wired.gates]
                /\ report' = [Report("step") EXCEPT
                                 !.sent = IF applied.ok
                                          THEN send_bloch_vectors(BlochVectors(applied.sys, registers))
                                          ELSE <<>>,
                                 !.working = wired.gates,
                                 !.wmeas = wired.wmeas,
                                 !.gmeas = applied.meas]
                /\ UNCHANGED <<current_drag, dragging_wire, wires, registers>>

\* step()
Step ==
    /\ ~panicked
    /\ IF AtEnd(step, gates)
       THEN StepNoOp
       ELSE \E wired \in StepWires(system, gates[step + 1], ColumnWires(wires, step)) :
            \E applied \in apply_gates(wired.sys, wired.gates) :
                /\ step' = step + 1
                /\ system' = applied.sys
                /\ panicked' = ~applied.ok
                /\ report' = [Report("step") EXCEPT
                                 !.sent = IF applied.ok
                                          THEN send_bloch_vectors(BlochVectors(applied.sys, registers))
                                          ELSE <<>>,
                                 !.working = wired.gates,
                                 !.wmeas = wired.wmeas,
                                 !.gmeas = applied.meas]
                /\ UNCHANGED <<gates, current_drag, dragging_wire, wires, registers>>

\* the qubits the entries of a column act on: the sum, over the entries that
\* are not Placeholders, of log2 of the side of the entry's matrix
RECURSIVE ColumnQubits(_, _)
ColumnQubits(column_, n) ==
    IF n = 0 THEN 0
    ELSE ColumnQubits(column_, n - 1)
         + (IF IsOther(column_[n]) THEN 0 ELSE log2(MLen(to_matrix(column_[n]))))

(***************************************************************************)
(* Specifications                                                          *)
(***************************************************************************)
\* the editing operations: dragging a gate of the palette onto the grid,
\* adding tracks and columns, clearing
Edit(palette, maxRegisters, maxColumns, maxWires) ==
    \/ \E gate \in palette : set_dragging(gate)
    \/ \E column \in 0..(maxColumns - 1), register \in 0..(maxRegisters - 1) :
          handle_drop(column, register, maxColumns, maxWires)
    \/ add_register(maxRegisters)
    \/ add_column(maxColumns)
    \/ clear_system

\* dragging the wire handle of an M entry
WireDrag ==
    \E dragging \in BOOLEAN, column \in 0..(MaxColumns - 1),
       register \in 0..(MaxRegisters - 1) : set_wire_drag(dragging, column, register)

\* a click with the auxiliary button on an entry
Remove ==
    \E column \in 0..(MaxColumns - 1), register \in 0..(MaxRegisters - 1) :
       remove_gate(column, register)

\* the circuit manager driven through the editor
Next ==
    \/ Edit(DragGates, MaxRegisters, MaxColumns, MaxWires)
    \/ Step
    \/ restart
    \/ WireDrag
    \/ Remove

Spec == Init /\ [][Next]_vars

\* editing only, with gates of one, two and three qubits
NextEdit == Edit(EditGates, EditRegisters, EditColumns, MaxWires)

SpecEdit == Init /\ [][NextEdit]_vars

\* editing and removing, with gates of one, two and three qubits
NextRemove ==
    \/ Edit(EditGates, EditRegisters, EditColumns, MaxWires)
    \/ \E column \in 0..(EditColumns - 1), register \in 0..(EditRegisters - 1) :
          remove_gate(column, register)

SpecRemove == Init /\ [][NextRemove]_vars

\* the entries of the grid that hold a gate (neither I nor a Placeholder)
RECURSIVE GateCount(_, _)
GateCount(gs, n) ==
    IF n = 0 THEN 0
    ELSE GateCount(gs, n - 1)
         + Len(SelectSeq(gs[n], LAMBDA gate : gate # G("I") /\ ~IsOther(gate)))

\* the editor without its wires, with a two-qubit gate and the measurement:
\* editing, removals and running; a gate is dropped while the grid holds
\* fewer than LastGates gates
NextLast ==
    \/ \E gate \in RunGates : set_dragging(gate)
    \/ \E column \in 0..(LastColumns - 1), register \in 0..(LastRegisters - 1) :
          /\ GateCount(gates, Len(gates)) < LastGates
          /\ handle_drop(column, register, LastColumns, MaxWires)
    \/ add_register(LastRegisters)
    \/ add_column(LastColumns)
    \/ clear_system
    \/ \E column \in 0..(LastColumns - 1), register \in 0..(LastRegisters - 1) :
          remove_gate(column, register)
    \/ Step
    \/ restart

SpecLast == Init /\ [][NextLast]_vars

\* editing (without wires and removals) and running, with a two-qubit gate
\* and the measurement
NextRun ==
    \/ Edit(RunGates, MaxRegisters, MaxColumns, MaxWires)
    \/ Step
    \/ restart

SpecRun == Init /\ [][NextRun]_vars

\* running the examples
NextExample ==
    \/ \E example \in Examples : set_example(example)
    \/ Step
    \/ restart
    \/ clear_system
    \/ add_register(ExampleRegisters)
    \/ add_column(ExampleColumns)

SpecExample == Init /\ [][NextExample]_vars

\* classically controlled gates: three tracks, two of them measured after a
\* Hadamard gate, the third holding an X in the column of the M entries (the
\* grid that dragging H, H, M, M, X onto three tracks gives); wires are
\* drawn from the M entries and the circuit is run
ControlGrid ==
    << <<G("H"), G("H"), G("I")>>, <<G("M"), G("M"), G("X")>>, <<G("I"), G("I"), G("I")>> >>

InitControl ==
    /\ system = NewSystem(Zeros(3))
    /\ gates = ControlGrid
    /\ current_drag = G("X")
    /\ dragging_wire = <<FALSE, 0, 0>>
    /\ wires = <<>>
    /\ registers = 3
    /\ step = 0
    /\ panicked = FALSE
    /\ report = DropReport(1, 2, "placed", <<G("M"), G("M"), G("I")>>)

NextControl ==
    \/ \E dragging \in BOOLEAN, column \in 0..(Len(gates) - 1),
          register \in 0..(registers - 1) : set_wire_drag(dragging, column, register)
    \/ \E column \in 0..(Len(gates) - 1), register \in 0..(registers - 1) :
          dragging_wire[1] /\ handle_drop(column, register, Len(ControlGrid), ControlWires)
    \/ Step
    \/ restart

SpecControl == InitControl /\ [][NextControl]_vars

\* a measurement next to a two-qubit gate: three tracks, the first measured
\* after a Hadamard gate, the other two holding a CNOT in the column of the
\* M entry (the grid that dragging H, M and CNOT onto three tracks gives);
\* wires are drawn from the M entry and the circuit is run
HeadGrid ==
    << <<G("H"), G("I"), G("I")>>, <<G("M"), G("CNOT"), Placeholder>>,
       <<G("I"), G("I"), G("I")>> >>

InitHead ==
    /\ system = NewSystem(Zeros(3))
    /\ gates = HeadGrid
    /\ current_drag = G("CNOT")
    /\ dragging_wire = <<FALSE, 0, 0>>
    /\ wires = <<>>
    /\ registers = 3
    /\ step = 0
    /\ panicked = FALSE
    /\ report = DropReport(1, 1, "placed", <<G("M"), G("I"), G("I")>>)

SpecHead == InitHead /\ [][NextControl]_vars

(***************************************************************************)
(* measure_single as a function of the state and of the random draw        *)
(***************************************************************************)
\* the amplitudes of the initial vectors
Amps == {Zero, One, SQRT_HALF, <<0 - 1, 0, 0, 0, 1>>, <<0, 0, 1, 0, 1>>}

\* the sum of the squared moduli is 1
Normalized(values) == SumSq(values.v) = values.q

\* a QubitSystem of n qubits (QubitSystem::from_tensor) in a normalized state
InitMeasure ==
    /\ \E n \in 1..MeasQubits :
         \E v \in [1..Pow2(n) -> Amps] :
            /\ Normalized([v |-> v, q |-> One])
            /\ system = [values |-> [v |-> Vec(v), q |-> One], len |-> n]
    /\ gates = << <<G("I")>> >>
    /\ current_drag = G("I")
    /\ dragging_wire = <<FALSE, 0, 0>>
    /\ wires = <<>>
    /\ registers = 1
    /\ step = 0
    /\ panicked = FALSE
    /\ report = Report("new")

\* a call of system.measure_single(target); report.gmeas lists the calls
\* made so far with their results
MeasureSingle(target, u) ==
    /\ Len(report.gmeas) < MeasCalls
    /\ target < system.len
    /\ \E m \in {measure_single(system, target, u)} :
         /\ system' = m.sys
         /\ report' = [Report("measure_single") EXCEPT
                          !.gmeas = Append(report.gmeas, <<target, m.result>>)]
    /\ UNCHANGED <<gates, current_drag, dragging_wire, wires, registers, step, panicked>>

NextMeasure ==
    \E target \in 0..(MeasQubits - 1), u \in 0..(DrawDen - 1) : MeasureSingle(target, u)

SpecMeasure == InitMeasure /\ [][NextMeasure]_vars

(***************************************************************************)
(* The QubitSystem driven directly, as the tests of qubit.rs do: a system  *)
(* built from basis qubits, apply_gate, measure and measure_single         *)
(***************************************************************************)
\* the matrices the tests pass to apply_gate
EngineGates == {G("X"), G("CNOT"), G("SWAP")}

\* QubitSystem::new(qubits) for every list of 1 .. EngineQubits basis qubits
InitEngine ==
    /\ \E n \in 1..EngineQubits :
         \E bits \in [1..n -> {0, 1}] : system = NewSystem(BasisQubits(bits))
    /\ gates = << <<G("I")>> >>
    /\ current_drag = G("I")
    /\ dragging_wire = <<FALSE, 0, 0>>
    /\ wires = <<>>
    /\ registers = 1
    /\ step = 0
    /\ panicked = FALSE
    /\ report = Report("new")

\* a call of system.apply_gate(target, gate.to_matrix()); the report holds
\* the target (register) and the gate (working)
ApplyGate(target, gate) ==
    /\ ~panicked
    /\ target < system.len
    /\ \E a \in {apply_gate(system, target, to_matrix(gate))} :
         /\ system' = a.sys
         /\ panicked' = ~a.ok
    /\ report' = [Report("apply_gate") EXCEPT !.register = target, !.working = <<gate>>]
    /\ UNCHANGED <<gates, current_drag, dragging_wire, wires, registers, step>>

\* a call of system.measure(); the report holds the returned bits (outcome)
Measure(u) ==
    /\ ~panicked
    /\ \E m \in {measure(system, u)} :
         /\ system' = m.sys
         /\ panicked' = ~m.ok
         /\ report' = [Report("measure") EXCEPT !.outcome = m.result]
    /\ UNCHANGED <<gates, current_drag, dragging_wire, wires, registers, step>>

\* a call of system.measure_single(target); the report holds the call and
\* its result (gmeas)
CallMeasureSingle(target, u) ==
    /\ ~panicked
    /\ target < system.len
    /\ \E m \in {measure_single(system, target, u)} :
         /\ system' = m.sys
         /\ report' = [Report("measure_single") EXCEPT !.gmeas = << <<target, m.result>> >>]
    /\ UNCHANGED <<gates, current_drag, dragging_wire, wires, registers, step, panicked>>

\* measuring a system built from basis qubits
NextEngine ==
    \/ \E u \in 0..(DrawDen - 1) : Measure(u)
    \/ \E target \in 0..(EngineQubits - 1), u \in 0..(DrawDen - 1) :
          CallMeasureSingle(target, u)

SpecEngine == InitEngine /\ [][NextEngine]_vars

\* applying gates to a system built from basis qubits and measuring it
NextGate ==
    \/ \E target \in 0..(EngineQubits - 1), gate \in EngineGates : ApplyGate(target, gate)
    \/ \E u \in 0..(DrawDen - 1) : Measure(u)

SpecGate == InitEngine /\ [][NextGate]_vars

(***************************************************************************)
(* measure on amplitude vectors of any norm: a system of 1 .. MeasQubits   *)
(* qubits made by QubitSystem::from_tensor from the amplitudes 0, 1,       *)
(* 1 / sqrt 2 and 2                                                        *)
(***************************************************************************)
NormAmps == {Zero, One, SQRT_HALF, c(2, 0)}

InitNorm ==
    /\ \E n \in 1..MeasQubits :
         \E v \in [1..Pow2(n) -> NormAmps] :
            system = [values |-> [v |-> Vec(v), q |-> One], len |-> n]
    /\ gates = << <<G("I")>> >>
    /\ current_drag = G("I")
    /\ dragging_wire = <<FALSE, 0, 0>>
    /\ wires = <<>>
    /\ registers = 1
    /\ step = 0
    /\ panicked = FALSE
    /\ report = Report("new")

NextNorm == \E u \in 0..(DrawDen - 1) : Measure(u)

SpecNorm == InitNorm /\ [][NextNorm]_vars

(***************************************************************************)
(* Parameterised gates: one track holding RX, RY and M in successive       *)
(* columns (the grid that dragging RX(0.0), RY(0.0) and M onto the track   *)
(* gives); the parameters are edited and the circuit is run                *)
(***************************************************************************)
AngleGrid == << <<GP("RX", 0)>>, <<GP("RY", 0)>>, <<G("M")>>, <<G("I")>> >>

InitAngle ==
    /\ system = NewSystem(<<qubit_zero>>)
    /\ gates = AngleGrid
    /\ current_drag = G("M")
    /\ dragging_wire = <<FALSE, 0, 0>>
    /\ wires = <<>>
    /\ registers = 1
    /\ step = 0
    /\ panicked = FALSE
    /\ report = DropReport(2, 0, "placed", <<G("I")>>)

\* the text box of GateObject: the parameter of an entry is set to
\* value * pi / 2, value \in 0 .. MaxAngle
NextAngle ==
    \/ \E column \in 0..(Len(gates) - 1), register \in 0..(registers - 1),
          value \in 0..MaxAngle : edit_gate(column, register, value)
    \/ Step
    \/ restart
    \/ add_register(AngleRegisters)

SpecAngle == InitAngle /\ [][NextAngle]_vars

(***************************************************************************)
(* Gate::to_matrix as a function of the gate: each gate of the catalog,    *)
(* with each parameter value * pi / 2, is applied once to each basis       *)
(* state of as many qubits as the gate has                                 *)
(***************************************************************************)
\* the variants of Gate other than Other
Catalog ==
    { G(tag) : tag \in {"I", "X", "Y", "Z", "H", "M", "S",
                        "CNOT", "CZ", "SWAP", "CCX", "CCCX", "CSWAP"} }
    \cup { GP(tag, theta) : tag \in {"P", "RX", "RY", "RZ"}, theta \in 0..CatalogAngle }

InitCatalog ==
    /\ \E gate \in Catalog :
         \E bits \in [1..log2(MLen(to_matrix(gate))) -> {0, 1}] :
            /\ current_drag = gate
            /\ system = NewSystem(BasisQubits(bits))
    /\ gates = << <<G("I")>> >>
    /\ dragging_wire = <<FALSE, 0, 0>>
    /\ wires = <<>>
    /\ registers = 1
    /\ step = 0
    /\ panicked = FALSE
    /\ report = Report("new")

\* system.apply_gate(0, gate.to_matrix()), once
NextCatalog == report.op = "new" /\ ApplyGate(0, current_drag)

SpecCatalog == InitCatalog /\ [][NextCatalog]_vars

(***************************************************************************)
(* Matrix::kronecker, tensor_product and Matrix::dot as functions: a       *)
(* system built from 1 .. KronQubits qubits, each |0>, |1>,                *)
(* (|0> + |1>) / sqrt 2 or (|0> + i |1>) / sqrt 2, is handed once to       *)
(* apply_gates with a list of matrices of the catalog that fits its size   *)
(***************************************************************************)
\* Qubit::new(a, b) for the four qubits above
KronStates ==
    {qubit_zero, qubit_one, [v |-> <<One, One>>, q |-> c(2, 0)],
     [v |-> <<One, c(0, 1)>>, q |-> c(2, 0)]}

\* the gates of the lists; RY is the one whose matrix is not unitary
KronGates == {G("X"), G("H"), G("S"), GP("RY", 1), G("CNOT")}

\* the lists of 1 .. 3 gates
KronColumns == UNION { [1..n -> KronGates] : n \in 1..3 }

\* QubitSystem::new(qubits); the report keeps the qubits (before)
InitKron ==
    /\ \E n \in 1..KronQubits :
         \E qubits \in [1..n -> KronStates] :
            /\ system = NewSystem(qubits)
            /\ report = [Report("new") EXCEPT !.before = Vec(qubits)]
    /\ gates = << <<G("I")>> >>
    /\ current_drag = G("I")
    /\ dragging_wire = <<FALSE, 0, 0>>
    /\ wires = <<>>
    /\ registers = 1
    /\ step = 0
    /\ panicked = FALSE

\* a call of system.apply_gates(column); the report holds the column
\* (working) and keeps the qubits the system was built from (before)
ApplyGates(column) ==
    /\ ~panicked
    /\ \E applied \in apply_gates(system, column) :
         /\ system' = applied.sys
         /\ panicked' = ~applied.ok
         /\ report' = [Report("apply_gates") EXCEPT !.before = report.before,
                                                    !.working = column,
                                                    !.gmeas = applied.meas]
    /\ UNCHANGED <<gates, current_drag, dragging_wire, wires, registers, step>>

\* one call, with a list whose matrices act on system.len qubits together
NextKron ==
    \E column \in KronColumns :
       /\ report.op = "new"
       /\ ColumnQubits(Vec(column), Len(column)) = system.len
       /\ ApplyGates(Vec(column))

SpecKron == InitKron /\ [][NextKron]_vars

(***************************************************************************)
(* Reading the tracks of a circuit with measure_single                     *)
(***************************************************************************)
\* an example is loaded and stepped, and the tracks of the system are read
\* with measure_single at any moment
NextReadout ==
    \/ \E example \in Examples : set_example(example)
    \/ Step
    \/ restart
    \/ \E target \in 0..(registers - 1), u \in 0..(DrawDen - 1) : MeasureSingle(target, u)

SpecReadout == Init /\ [][NextReadout]_vars

(***************************************************************************)
(* Properties                                                              *)
(***************************************************************************)
\* C1: after any sequence of set_dragging, handle_drop, add_register,
\* add_column and clear_system calls, every column of the grid satisfies the
\* arity invariant: its entries that are not Placeholders act on registers
\* qubits together, so that the composite of apply_gates has 2^registers rows
C1_ArityInvariant ==
    \A column \in 1..Len(gates) :
       ColumnQubits(gates[column], Len(gates[column])) = registers

\* C2: in every reachable state the amplitude vector has 2^registers
\* entries, the qubit count of the system is registers and every column of
\* the grid has registers entries
C2_Dimensions ==
    /\ Len(system.values.v) = Pow2(registers)
    /\ system.len = registers
    /\ \A column \in 1..Len(gates) : Len(gates[column]) = registers

\* a system of two qubits has run a column that holds a two-qubit gate
C2_Witness ==
    /\ registers = 2
    /\ report.op = "step"
    /\ step = 1
    /\ gates[1] = <<G("CNOT"), Placeholder>>
    /\ ~panicked

\* C3: in every reachable state 0 <= step <= number of columns; a step()
\* called while step < columns increases step by exactly 1; step decreases
\* only through restart, clear_system or set_example, which set it to 0
C3_StepRange ==
    /\ [](0 <= step /\ step <= Len(gates))
    /\ [][(report'.op = "step" /\ step < Len(gates)) => step' = step + 1]_vars
    /\ [][step' < step =>
             /\ step' = 0
             /\ report'.op \in {"restart", "clear_system", "set_example"}]_vars

\* the last column of the teleportation example has just been executed
C3_Witness ==
    /\ report.op = "step"
    /\ report.working = Teleportation.gates[7]
    /\ step = 7
    /\ Len(gates) = 7

\* C4: when step = number of columns, step() changes neither the step
\* counter nor the amplitude vector nor the grid nor the wires, and makes no
\* measurement
C4_NoOpAtEnd ==
    [][(report'.op = "step" /\ step = Len(gates)) =>
          /\ UNCHANGED <<step, system, gates, wires>>
          /\ report'.wmeas = <<>>
          /\ report'.gmeas = <<>>]_vars

\* step() was called after the last column of the teleportation example
C4_Witness ==
    /\ report.op = "step"
    /\ report.working = <<>>
    /\ step = Len(gates)
    /\ gates = Teleportation.gates
    /\ wires = Teleportation.wires

\* C5: a step() that fails the assertion of apply_gates on the side of the
\* composite fails before any change: the step counter and the amplitude
\* vector are as before the call
C5_RejectedUpFront ==
    [][(report'.op = "step" /\ panicked') => (step' = step /\ system' = system)]_vars

\* C6: handle_drop(column, track) with a dragged gate of k qubits,
\* k > registers - track, changes neither the grid (nor the number of its
\* columns) nor the wires nor the step counter nor the amplitude vector; the
\* drop is rejected
C6_Oversized ==
    [][( /\ report'.op = "handle_drop"
         /\ report'.outcome \in {"placed", "rejected"}
         /\ log2(MLen(to_matrix(current_drag))) > registers - report'.register )
       => /\ UNCHANGED <<gates, wires, step, system>>
          /\ report'.outcome = "rejected"]_vars

\* a CNOT was dropped on the last of three tracks and rejected
C6_Witness ==
    /\ report.op = "handle_drop"
    /\ report.outcome = "rejected"
    /\ current_drag = G("CNOT")
    /\ registers = 3
    /\ report.register = 2

\* C7: when a gate of k >= 2 qubits is headed at (column, t), followed by its
\* k - 1 Placeholders, and a gate of j <= k qubits is dropped at (column, t),
\* the column then holds the new gate at t, Placeholders at t+1..t+j-1 and I
\* at t+j..t+k-1
C7_Restoration ==
    [][(report'.op = "handle_drop" /\ report'.outcome \in {"placed", "rejected"}) =>
          \A column \in {report'.column}, t \in {report'.register} :
          \A k \in {log2(MLen(to_matrix(gates[column + 1][t + 1])))},
             j \in {log2(MLen(to_matrix(current_drag)))} :
             ( /\ k >= 2
               /\ t + k <= registers
               /\ \A i \in (t + 1)..(t + k - 1) : gates[column + 1][i + 1] = Placeholder
               /\ j <= k )
             => /\ report'.outcome = "placed"
                /\ gates'[column + 1][t + 1] = current_drag
                /\ \A i \in (t + 1)..(t + j - 1) : gates'[column + 1][i + 1] = Placeholder
                /\ \A i \in (t + j)..(t + k - 1) : gates'[column + 1][i + 1] = G("I")]_vars

\* a CNOT was dropped on the head of a CCX
C7_Witness ==
    /\ report.op = "handle_drop"
    /\ report.outcome = "placed"
    /\ report.register = 0
    /\ report.before = <<G("CCX"), Placeholder, Placeholder>>
    /\ current_drag = G("CNOT")
    /\ gates[report.column + 1] = <<G("CNOT"), Placeholder, G("I")>>

\* C8: with a wire drag (active, c0, s), handle_drop(column, track) appends
\* the wire (column, s, track) exactly when column = c0 and track # s, and
\* changes nothing else; a drop on the source track changes nothing; every
\* recorded wire has a source that differs from its target
C8_WireDrop ==
    /\ [](\A n \in 1..Len(wires) : wires[n][2] # wires[n][3])
    /\ [][\A column \in 0..(Len(gates) - 1), track \in 0..(registers - 1) :
             ( /\ dragging_wire[1]
               /\ handle_drop(column, track, Len(ControlGrid), ControlWires) )
             => /\ wires' = IF column = dragging_wire[2] /\ track # dragging_wire[3]
                            THEN Append(wires, <<column, dragging_wire[3], track>>)
                            ELSE wires
                /\ UNCHANGED <<gates, step, system>>]_vars

\* a second wire from an M entry was recorded
C8_Witness ==
    /\ report.op = "handle_drop"
    /\ report.outcome = "wire"
    /\ Len(wires) = 2
    /\ dragging_wire[1]
    /\ wires[2] = <<report.column, dragging_wire[3], report.register>>

\* C9: in step(), the working column handed to apply_gates holds, at every
\* track that is the target of wires of the column being executed, the entry
\* as placed when each of these wires measured 1 on its source and I when one
\* of them measured 0; at every other track it holds the entry as placed
C9_Controlled ==
    [][(report'.op = "step" /\ step < Len(gates)) =>
          LET placed       == gates[step + 1]
              Wires(i)     == SelectSeq(wires, LAMBDA w : w[1] = step /\ w[3] = i)
              Outcomes(i)  == SelectSeq(report'.wmeas, LAMBDA m : m[2] = i)
          IN  /\ Len(report'.working) = Len(placed)
              /\ \A i \in 0..(Len(placed) - 1) :
                    /\ Len(Outcomes(i)) = Len(Wires(i))
                    /\ \A n \in 1..Len(Wires(i)) : Outcomes(i)[n][1] = Wires(i)[n][2]
                    /\ report'.working[i + 1] =
                          IF \A n \in 1..Len(Outcomes(i)) : Outcomes(i)[n][3] = 1
                          THEN placed[i + 1]
                          ELSE G("I")]_vars

\* two wires target the X; the first measured 1 and the second 0, and the X
\* was executed as I
C9_Witness ==
    /\ report.op = "step"
    /\ Len(report.wmeas) = 2
    /\ report.wmeas[1][2] = 2 /\ report.wmeas[1][3] = 1
    /\ report.wmeas[2][2] = 2 /\ report.wmeas[2][3] = 0
    /\ gates[step][3] = G("X")
    /\ report.working[3] = G("I")

\* C10: when measure_single(t) is called right after a measure_single(t)
\* that returned b, on a system that started normalized, it returns b and
\* leaves the amplitude vector as it is
C10_Collapse ==
    [][( /\ Len(report.gmeas) >= 1
         /\ Len(report'.gmeas) = Len(report.gmeas) + 1
         /\ report'.gmeas[Len(report'.gmeas)][1] = report.gmeas[Len(report.gmeas)][1] )
       => /\ report'.gmeas[Len(report'.gmeas)][2] = report.gmeas[Len(report.gmeas)][2]
          /\ system' = system]_vars

\* track 1 of two qubits was measured twice and gave 1 both times
C10_Witness ==
    /\ system.len = 2
    /\ report.gmeas = << <<1, 1>>, <<1, 1>> >>

\* C11: once the columns [H, I] and [CNOT, Placeholder] of the Entanglement
\* example have been executed on two qubits, a measure_single(0) that
\* returns b followed by measure_single(1) makes the latter return b as
\* well, whatever the random draws
C11_BellCorrelation ==
    [][( /\ gates = Entanglement.gates
         /\ step >= 2
         /\ report.op = "measure_single"
         /\ report'.op = "measure_single"
         /\ Len(report'.gmeas) = Len(report.gmeas) + 1
         /\ report.gmeas[Len(report.gmeas)][1] = 0
         /\ report'.gmeas[Len(report'.gmeas)][1] = 1 )
       => report'.gmeas[Len(report'.gmeas)][2] = report.gmeas[Len(report.gmeas)][2]]_vars

\* right after the second column, track 0 and then track 1 were measured and
\* both gave 1
C11_Witness ==
    /\ gates = Entanglement.gates
    /\ step = 2
    /\ report.op = "measure_single"
    /\ report.gmeas = << <<0, 1>>, <<1, 1>> >>
    /\ system.values = Canon([v |-> <<Zero, Zero, Zero, One>>, q |-> One])

\* U on the tracks target .. target + k - 1 of n and the identity on every
\* other track: I (x) .. (x) I (x) U (x) I (x) .. (x) I
RECURSIVE IdentityOn(_)
IdentityOn(n) == IF n = 0 THEN Unit1 ELSE kronecker(IdentityOn(n - 1), identity2)

OnTracks(target, matrix, n) ==
    kronecker(kronecker(IdentityOn(target), matrix),
              IdentityOn(n - target - log2(MLen(matrix))))

\* C12: on a system built from the basis qubits b_0 .. b_(n-1), track 0
\* first, measure_single(t) returns b_t for every t < n and every random
\* draw, and leaves the amplitude vector as it is
C12_BasisTrack ==
    [][report'.op = "measure_single" =>
          \A bits \in [1..system.len -> {0, 1}] :
             system = NewSystem(BasisQubits(bits)) =>
                /\ report'.gmeas[1][2] = bits[report'.gmeas[1][1] + 1]
                /\ system' = system]_vars

\* measure_single(1) on the system of |0>, |1>, |0> returned 1
C12_Witness ==
    /\ report.op = "measure_single"
    /\ report.gmeas = << <<1, 1>> >>
    /\ system = NewSystem(<<qubit_zero, qubit_one, qubit_zero>>)

\* C13: on a system in the basis state of the bits b_0 .. b_(n-1), measure()
\* returns exactly these bits, track 0 first, for every random draw
\* (u = 0 included), and leaves the amplitude vector as it is
C13_BasisMeasure ==
    [][report'.op = "measure" =>
          \A bits \in [1..system.len -> {0, 1}] :
             system = NewSystem(BasisQubits(bits)) =>
                /\ ~panicked'
                /\ report'.outcome = Vec(bits)
                /\ system' = system]_vars

\* C14: apply_gate(target, U) with U of k qubits and target + k <= n applies
\* U to the tracks target .. target + k - 1 and the identity to every other
\* track
C14_TargetedGate ==
    [][report'.op = "apply_gate" =>
          \A target \in {report'.register}, matrix \in {to_matrix(report'.working[1])} :
             target + log2(MLen(matrix)) <= system.len =>
                /\ ~panicked'
                /\ system'.len = system.len
                /\ system'.values.q = system.values.q
                /\ system'.values.v =
                      dot(OnTracks(target, matrix, system.len), system.values.v)]_vars

\* the bit of track t in the index idx of a basis state of n qubits
TrackBit(idx, t, n) == (idx \div Pow2(n - 1 - t)) % 2

\* the Bloch vector (0, 0, +1) of |0> or (0, 0, -1) of |1>, over q
BlochOfBit(bit, q) == [r |-> <<Zero, Zero, IF bit = 1 THEN CNeg(q) ELSE q>>, q |-> q]

\* C15: the t-th Bloch vector published by step() is that of track t: when
\* the state after the step is the basis state of index idx, entry t of the
\* list handed to send_bloch_vectors is (0, 0, +1) if track t is |0> and
\* (0, 0, -1) if track t is |1>, for every t < registers
C15_BlochTrack ==
    (report.op = "step" /\ report.sent # <<>>) =>
       \A idx \in 0..(Len(system.values.v) - 1) :
          (\A j \in 0..(Len(system.values.v) - 1) : (system.values.v[j + 1] # Zero) <=> (j = idx))
          => report.sent =
                send_bloch_vectors(Vec([k \in 1..registers |->
                    BlochOfBit(TrackBit(idx, k - 1, registers), system.values.q)]))

\* C16: when every column of the "Quantum Teleportation" example has been
\* stepped on three qubits, with the wires (4, 1, 2) and (5, 0, 2), track 2
\* is |1> whatever the measurements gave, and the Bloch vector published at
\* index 2 is (0, 0, -1)
C16_Teleportation ==
    ( /\ gates = Teleportation.gates
      /\ wires = Teleportation.wires
      /\ registers = 3
      /\ step = 7
      /\ report.op = "step"
      /\ report.working = Teleportation.gates[7] )
    => /\ ~panicked
       /\ \A idx \in 0..7 : system.values.v[idx + 1] # Zero => TrackBit(idx, 2, 3) = 1
       /\ report.sent[3] = send_bloch_vectors(<<BlochOfBit(1, system.values.q)>>)[1]

\* C17: starting from |0...0>, after any sequence of step() calls over
\* columns of catalog gates (RX, RY and M with edited parameters here),
\* interleaved with add_register and restart, the squared moduli of the
\* amplitudes sum to 1
C17_Normalization ==
    /\ system.values.q # Zero
    /\ Normalized(system.values)

\* the conjugate transpose of a square matrix
Dagger(m) == Vec([i \in 1..Len(m) |-> Vec([j \in 1..Len(m) |-> conjugate(m[j][i])])])

\* column j of a matrix, as a vector
Column(m, j) == Vec([i \in 1..Len(m) |-> m[i][j]])

\* the product of two square matrices of the same side
MatMul(a, b) ==
    Vec([i \in 1..Len(a) |-> Vec([j \in 1..Len(a) |-> RowDot(a[i], Column(b, j), Len(a))])])

\* the identity matrix of side n
IdentityMatrix(n) ==
    Vec([i \in 1..n |-> Vec([j \in 1..n |-> IF i = j THEN One ELSE Zero])])

\* C18: the matrix U that to_matrix returns for a gate of the catalog, with
\* any parameter, satisfies U * U^dagger = I
C18_Unitary ==
    report.op = "apply_gate" =>
       \A U \in {to_matrix(report.working[1])} :
          MatMul(U, Dagger(U)) = IdentityMatrix(MLen(U))

\* C19: the matrix of RY(theta) is the real rotation
\* [[cos(theta/2), -sin(theta/2)], [sin(theta/2), cos(theta/2)]]
C19_RealRotation ==
    (report.op = "apply_gate" /\ report.working[1].tag = "RY") =>
       \A theta \in {report.working[1].theta} :
          to_matrix(report.working[1]) =
             << <<CosQ(theta), CNeg(SinQ(theta))>>, <<SinQ(theta), CosQ(theta)>> >>

\* C20: the matrix of RZ(theta) is diag(e^(-i theta/2), e^(i theta/2)): entry
\* [0][0] is cos(theta/2) - i sin(theta/2), entry [1][1] is
\* cos(theta/2) + i sin(theta/2)
C20_PhaseSigns ==
    (report.op = "apply_gate" /\ report.working[1].tag = "RZ") =>
       \A theta \in {report.working[1].theta} :
          to_matrix(report.working[1]) =
             << <<CSub(CosQ(theta), TimesI(SinQ(theta))), Zero>>,
                <<Zero, CAdd(CosQ(theta), TimesI(SinQ(theta)))>> >>

\* the product of the matrices of the entries first .. last of a column,
\* nested to the right: A (x) (B (x) (C (x) ..))
RECURSIVE KronRight(_, _, _)
KronRight(column_, first, last) ==
    IF first = last THEN to_matrix(column_[first])
    ELSE kronecker(to_matrix(column_[first]), KronRight(column_, first + 1, last))

\* the vector M v for the amplitude vector [v, q]
DotValues(m, values) == [v |-> dot(m, values.v), q |-> values.q]

\* C21: (A (x) B) (x) C = A (x) (B (x) C) for the matrices of a list
\* [A, B, C], and dot(A (x) B, tensor_product(v, w)) =
\* tensor_product(dot(A, v), dot(B, w)) where A is the first matrix of a
\* list handed to apply_gates, B the product of the others, v the state of
\* the qubits A acts on and w the state of the others
C21_Kronecker ==
    [][report'.op = "apply_gates" =>
          \A column \in {report'.working}, qubits \in {report.before} :
             /\ Len(column) = 3 =>
                   kronecker(kronecker(to_matrix(column[1]), to_matrix(column[2])),
                             to_matrix(column[3]))
                   = KronRight(column, 1, 3)
             /\ Len(column) >= 2 =>
                   \A A \in {to_matrix(column[1])}, B \in {KronRight(column, 2, Len(column))} :
                   \A v \in {ReduceTensor(qubits, log2(MLen(A)))},
                      w \in {ReduceTensor(SubSeq(qubits, log2(MLen(A)) + 1, Len(qubits)),
                                           Len(qubits) - log2(MLen(A)))} :
                      /\ system.values = tensor_product(v, w)
                      /\ ~panicked'
                      /\ DotValues(kronecker(A, B), tensor_product(v, w))
                         = tensor_product(DotValues(A, v), DotValues(B, w))
                      /\ system'.values = tensor_product(DotValues(A, v), DotValues(B, w))]_vars

\* the list [H, RY(pi/2), S] was applied to the qubits |0>, (|0> + |1>) / sqrt 2
\* and |1>
C21_Witness ==
    /\ report.op = "apply_gates"
    /\ report.working = <<G("H"), GP("RY", 1), G("S")>>
    /\ report.before = <<qubit_zero, [v |-> <<One, One>>, q |-> c(2, 0)], qubit_one>>
    /\ ~panicked
    /\ Len(system.values.v) = 8

\* C22: measure() fails its assertion, and performs no collapse, whenever
\* the sum of the squared moduli differs from 1 by more than 0.05, be it
\* above 1.05 or below 0.95
C22_NonNormalState ==
    [][report'.op = "measure" =>
          \A sum \in {SumSq(system.values.v)}, q \in {system.values.q} :
             ( \/ RLess(q, CMul(Int2C(20), CSub(sum, q)))
               \/ RLess(q, CMul(Int2C(20), CSub(q, sum))) )
             => (panicked' /\ system' = system)]_vars

\* the amplitudes of |0...0> on n qubits: 1 at index 0, 0 elsewhere
KetZero(n) == [v |-> Vec([j \in 1..Pow2(n) |-> IF j = 1 THEN One ELSE Zero]), q |-> One]

\* C23: restart() sets the amplitude vector to |0...0> over the current
\* number of registers and step to 0, and leaves the grid, the wires and
\* registers as they are
C23_Restart ==
    [][report'.op = "restart" =>
          /\ system' = [values |-> KetZero(registers), len |-> registers]
          /\ step' = 0
          /\ UNCHANGED <<gates, wires, registers>>]_vars

\* the teleportation example was restarted
C23_Witness ==
    /\ report.op = "restart"
    /\ gates = Teleportation.gates
    /\ wires = Teleportation.wires
    /\ registers = 3
    /\ step = 0
    /\ system.values = KetZero(3)

\* C24: clear_system() brings registers, the grid and the amplitude vector
\* to the values CircuitManager::new gives them (one register, the single
\* column [I], |0>), empties the wires and sets step to 0
C24_ClearIsNew ==
    [][report'.op = "clear_system" =>
          /\ registers' = 1
          /\ gates' = << <<G("I")>> >>
          /\ system' = [values |-> KetZero(1), len |-> 1]
          /\ wires' = <<>>
          /\ step' = 0]_vars

\* C25: add_register(), at any step, increases registers by 1, appends I to
\* every column and leaves the other entries of the grid, gives the
\* amplitude vector psi (x) |0> (entry 2j is entry j of psi, entry 2j + 1
\* is 0), and leaves step and the wires as they are
C25_AddRegister ==
    [][report'.op = "add_register" =>
          /\ registers' = registers + 1
          /\ Len(gates') = Len(gates)
          /\ \A i \in 1..Len(gates) : gates'[i] = Append(gates[i], G("I"))
          /\ system'.len = system.len + 1
          /\ system'.values.q = system.values.q
          /\ Len(system'.values.v) = 2 * Len(system.values.v)
          /\ \A j \in 0..(Len(system.values.v) - 1) :
                /\ system'.values.v[2 * j + 1] = system.values.v[j + 1]
                /\ system'.values.v[2 * j + 2] = Zero
          /\ UNCHANGED <<step, wires>>]_vars

\* a register was added after the two columns of the Entanglement example
\* had produced (|00> + |11>) / sqrt 2
C25_Witness ==
    /\ report.op = "add_register"
    /\ step = 2
    /\ registers = 3
    /\ Len(gates) = 3
    /\ gates[2] = <<G("CNOT"), Placeholder, G("I")>>
    /\ system.values.v[1] # Zero
    /\ system.values.v[7] # Zero
    /\ \A j \in {2, 3, 4, 5, 6, 8} : system.values.v[j] = Zero

\* C26: while every column of the grid satisfies the arity invariant, a
\* step() does not fail the assertion of apply_gates on the side of the
\* composite, whatever wires were recorded by handle_drop and whatever the
\* measurements give, a wire on the head of a two-qubit gate or on its
\* Placeholder included
C26_WiredStep ==
    ( /\ report.op = "step"
      /\ \A column \in 1..Len(gates) :
            ColumnQubits(gates[column], Len(gates[column])) = registers )
    => ~panicked

\* C27: a removal (I written at a slot by the click with the auxiliary
\* button) keeps the arity invariant of its column: when the removed entry
\* is the head of a gate of k qubits, its k - 1 Placeholders do not stay, so
\* that the entries of the column still act on registers qubits together
C27_Removal ==
    [][report'.op = "remove_gate" =>
          \A column \in {report'.column + 1} :
             ColumnQubits(gates[column], registers) = registers
             => ColumnQubits(gates'[column], registers) = registers]_vars

\* C28: in every state reached from new() by handle_drop, add_register,
\* add_column, removals, step, restart and clear_system the last column of
\* the grid holds I on every track; a handle_drop that places a gate on the
\* last column appends exactly one column, and any other handle_drop (a
\* placement elsewhere, a rejected placement, a wire drop) appends none
C28_LastColumn ==
    /\ [](\A track \in 1..Len(gates[Len(gates)]) : gates[Len(gates)][track] = G("I"))
    /\ [][report'.op = "handle_drop" =>
             Len(gates') = Len(gates) +
                (IF report'.outcome = "placed" /\ report'.column = Len(gates) - 1
                 THEN 1 ELSE 0)]_vars

\* a CNOT was placed on the last column of a grid of one column and two
\* tracks, and a column was appended
C28_Witness ==
    /\ report.op = "handle_drop"
    /\ report.outcome = "placed"
    /\ report.column = 0
    /\ report.before = <<G("I"), G("I")>>
    /\ gates = << <<G("CNOT"), Placeholder>>, <<G("I"), G("I")>> >>

\* C29: step() changes neither the grid nor the wires, whatever the
\* measurements give: the replacement of a wire's target by I is made on the
\* working column only, and the restart that follows leaves the grid and the
\* wires as well, so that the same circuit runs again
C29_StoredGrid ==
    [][report'.op \in {"step", "restart"} => UNCHANGED <<gates, wires>>]_vars

\* a wire measured 0 and its target X was executed as I, while the grid
\* still holds the X
C29_Witness ==
    /\ report.op = "step"
    /\ step = 2
    /\ wires # <<>>
    /\ report.wmeas = << <<wires[1][2], 2, 0>> >>
    /\ report.working = <<G("M"), G("M"), G("I")>>
    /\ gates = ControlGrid

\* C30: while a wire drag is active, handle_drop places no gate, whatever
\* the column and the track of the drop (a column other than that of the
\* drag included): the grid and the number of its columns stay as they are,
\* and at most one wire is appended
C30_DragNeverPlaces ==
    [][(dragging_wire[1] /\ report'.op = "handle_drop") =>
          /\ gates' = gates
          /\ Len(gates') = Len(gates)
          /\ report'.outcome \in {"wire", "nowire"}
          /\ \/ wires' = wires
             \/ Len(wires') = Len(wires) + 1 /\ SubSeq(wires', 1, Len(wires)) = wires]_vars

\* with the X gate in hand and a wire drag active, a drop recorded no wire
\* and left the grid as it was
C30_Witness ==
    /\ report.op = "handle_drop"
    /\ report.outcome = "nowire"
    /\ dragging_wire[1]
    /\ current_drag = G("X")
    /\ gates = ControlGrid
    /\ wires = <<>>

=============================================================================
